---- MODULE Spec2Model ----
(***************************************************************************)
(* Model of credentials.go (package main of docker-ec2-metadata): the      *)
(* CredentialsProvider, its credential cache guarded by one mutex, the     *)
(* validity test of a cached entry, the AssumeRole request it builds and   *)
(* the session name generator.                                             *)
(*                                                                         *)
(* Time is counted in minutes.  Strings whose characters matter (platform  *)
(* tags, container ids, session names) are sequences of one-rune strings.  *)
(***************************************************************************)
EXTENDS Integers, Sequences, FiniteSets, TLC

VARIABLES
  now,        \* time.Now(), in minutes
  platform,   \* what self.container.TypeName() returns
  cache,      \* self.containerCredentials: a map from address to entry
  lock,       \* self.lock: the caller holding it, or NoOne
  pc,         \* where each caller is inside CredentialsForIP
  arg,        \* containerIP of each caller's call in progress
  container,  \* the local variable container of each caller's call, once set
  sts,        \* the AssumeRole requests in flight, by caller
  docker,     \* the containers ContainerForIP may answer with, by address
  result,     \* what each caller's last call returned
  serial,     \* number of credential sets STS has issued
  served,     \* by caller: the container its last call resolved, when that
              \* call returned the cached credential set
  kept,       \* by address: the entry the cache held when AssumeRole last
              \* failed for it, until the next refresh of the address
  snIn,       \* generateSessionName called on its own: the arguments
  snOut,      \* ... and what it returned
  exIn,       \* ExpiredAt and ExpiresIn called on their own: the credential
              \* set's expiration, the instant t and the duration d
  exOut       \* ... and what was called and returned

vars == <<now, platform, docker, served, cache, lock, pc, arg, container, sts,
          result, serial, kept, snIn, snOut, exIn, exOut>>

----------------------------------------------------------------------------
(* Bounds of the model *)

\* the clock stops here
MaxTime == 70
\* no call starts that could make STS issue more credential sets than this
MaxSerial == 2
\* longest container id handed to generateSessionName on its own
MaxIdLen == 40
\* latest expiration and instant handed to ExpiredAt and ExpiresIn on their own
MaxInstant == 8
\* longest duration handed to ExpiresIn on its own
MaxDuration == 5

Callers == {"g1", "g2"}
Addrs == {"10.0.0.1", "10.0.0.2"}
\* the clock's steps: to the last minute a credential set of one hour is good
\* for with a margin of five, and past it
TickSteps == {55, 60, 65, 70}

----------------------------------------------------------------------------
(* Program constants *)

\* const maxSessionNameLen int = 32
maxSessionNameLen == 32
\* DurationSeconds: aws.Int64(3600)
DurationSeconds == 3600
\* 5*time.Minute, in minutes
SafetyMarginMinutes == 5

\* defaultIamRoleArn and defaultIamPolicy, fixed by NewCredentialsProvider
defaultIamRoleArn == "arn:default"
defaultIamPolicy == "policy:default"

----------------------------------------------------------------------------
(* Strings as sequences of runes *)

Lower == {"a","b","c","d","e","f","g","h","i","j","k","l","m",
          "n","o","p","q","r","s","t","u","v","w","x","y","z"}
Upper == {"A","B","C","D","E","F","G","H","I","J","K","L","M",
          "N","O","P","Q","R","S","T","U","V","W","X","Y","Z"}
Digit == {"0","1","2","3","4","5","6","7","8","9"}

\* \w of Go's regexp (RE2): ASCII letters, digits and underscore
WordChars == Lower \cup Upper \cup Digit \cup {"_"}

\* the complement of the class [^\w+=,.@-]
ValidSessionNameChars == WordChars \cup {"+", "=", ",", ".", "@", "-"}

\* a string of length n that repeats seed
Repeat(seed, n) == [i \in 1..n |-> seed[((i - 1) % Len(seed)) + 1]]

Docker == <<"d","o","c","k","e","r">>
HexSeed == <<"4","f","a","6","e","0","b","9">>
\* a seed with the punctuation the class accepts and runes it rejects:
\* "/", ":", " ", "*", "%" and a non-ASCII letter
OddSeed == <<"a","/","B",":","7"," ","U+00E9",".","_","@","+","*","=",",","%","-">>

\* a full docker container id
LongId == Repeat(HexSeed, 64)
\* another container
OtherId == Repeat(<<"7","c","1","d">>, 64)
\* a short container id, as docker ps prints it
ShortId == Repeat(HexSeed, 12)

Platforms == {Docker}

\* the arguments generateSessionName is tried on, on its own
SnPlatforms == {<<>>, Docker, Repeat(OddSeed, 33)}
SnSeeds == {HexSeed, OddSeed, <<"/">>}

----------------------------------------------------------------------------
(* Values *)

NoOne == "NoOne"
\* a nil *string, a nil error
Nil == "nil"

\* a Go map: a function whose domain is the set of keys present
EmptyMap == [k \in {} |-> Nil]
Put(m, k, v) == [x \in DOMAIN m \cup {k} |-> IF x = k THEN v ELSE m[x]]
Remove(m, k) == [x \in DOMAIN m \ {k} |-> m[x]]

\* ContainerInfo: Id, IamRole, IamPolicy
ContainerInfo(id, role, policy) == [Id |-> id, IamRole |-> role, IamPolicy |-> policy]

\* the containers identity resolution may return
Containers ==
  { ContainerInfo(LongId, "", ""),
    ContainerInfo(LongId, "", "policy:own"),
    ContainerInfo(LongId, "arn:roleA", ""),
    ContainerInfo(OtherId, "arn:roleA", "policy:own"),
    ContainerInfo(ShortId, "arn:roleA", "") }

ResolveErrors == {"no container for ip"}
StsErrors == {"AccessDenied"}

\* Credentials{}: the zero value
ZeroCredentials ==
  [AccessKey |-> 0, Expiration |-> 0, GeneratedAt |-> 0, RoleArn |-> "",
   Token |-> <<>>]

NoResult == [kind |-> "none", creds |-> ZeroCredentials, err |-> Nil]
ReturnCreds(c) == [kind |-> "creds", creds |-> c, err |-> Nil]
ReturnError(e) == [kind |-> "error", creds |-> ZeroCredentials, err |-> e]
\* the call ends in a run-time panic: the deferred Unlock runs, the caller
\* gets neither a credential set nor an error (a caller that recovers, as
\* net/http does for a handler, goes on; any other caller dies with it)
ReturnPanic == [kind |-> "panic", creds |-> ZeroCredentials, err |-> Nil]

----------------------------------------------------------------------------
(* RoleArn *)

\* RoleArn.Empty: no role was specified
Empty(role) == role = ""
\* RoleArn.Equals: the canonical strings match
Equals(r1, r2) == r1 = r2
\* RoleArn.String
String(role) == role

----------------------------------------------------------------------------
(* Credentials *)

\* expired at the expiration already
ExpiredAtMut(self, at) == at >= self.Expiration

\* func (self Credentials) ExpiredAt(at time.Time) bool
ExpiredAt(self, at) == at > self.Expiration

\* func (self Credentials) ExpiresIn(d time.Duration) bool, called at time t
ExpiresIn(self, d, t) == ExpiredAt(self, t - d)

\* ContainerCredentials{container, role}
ContainerCredentials(c, creds) == [ContainerInfo |-> c, Credentials |-> creds]

\* a validity test that compares the declared policy too
IsValidMut(self, c, t) ==
  /\ Equals(self.ContainerInfo.IamRole, c.IamRole)
  /\ self.ContainerInfo.Id = c.Id
  /\ self.ContainerInfo.IamPolicy = c.IamPolicy
  /\ ~ExpiresIn(self.Credentials, SafetyMarginMinutes, t)

\* func (self ContainerCredentials) IsValid(container ContainerInfo) bool,
\* at time t
IsValid(self, c, t) ==
  /\ Equals(self.ContainerInfo.IamRole, c.IamRole)
  /\ self.ContainerInfo.Id = c.Id
  /\ ~ExpiresIn(self.Credentials, SafetyMarginMinutes, t)

----------------------------------------------------------------------------
(* generateSessionName *)

\* a class that lets "/" and ":" through
ReplaceInvalidMut(s) ==
  [i \in 1..Len(s) |->
     IF s[i] \in ValidSessionNameChars \cup {"/", ":"} THEN s[i] ELSE "_"]

\* invalidSessionNameRegexp.ReplaceAllString(s, "_")
ReplaceInvalid(s) ==
  [i \in 1..Len(s) |-> IF s[i] \in ValidSessionNameChars THEN s[i] ELSE "_"]

\* fmt.Sprintf("%s-%s", platform, containerId)
Sprintf(p, id) == p \o <<"-">> \o id

\* s[0:n]: panics when n is past the end of s
Slice(s, n) ==
  IF n > Len(s) THEN [panic |-> TRUE, value |-> <<>>]
  ELSE [panic |-> FALSE, value |-> SubSeq(s, 1, n)]

\* func generateSessionName(platform, containerId string) string
generateSessionName(p, id) ==
  Slice(ReplaceInvalid(Sprintf(p, id)), maxSessionNameLen)

----------------------------------------------------------------------------
(* The refresh of CredentialsForIP *)

\* roleArn after lines 87-96
EffectiveRole(c) ==
  IF Empty(c.IamRole) THEN defaultIamRoleArn ELSE c.IamRole

\* the default policy for every container that declares none
EffectivePolicyMut(c) ==
  IF c.IamPolicy = "" THEN defaultIamPolicy ELSE c.IamPolicy

\* iamPolicy after lines 87-96
EffectivePolicy(c) ==
  IF Empty(c.IamRole) /\ c.IamPolicy = "" THEN defaultIamPolicy ELSE c.IamPolicy

\* a number of seconds, in minutes
Minutes(seconds) == seconds \div 60

\* a request that always carries the policy, the empty one too
AssumeRoleInputMut(roleArn, iamPolicy, sessionName) ==
  [DurationSeconds |-> DurationSeconds,
   Policy |-> iamPolicy,
   RoleArn |-> String(roleArn),
   RoleSessionName |-> sessionName]

\* the sts.AssumeRoleInput that AssumeRole builds
AssumeRoleInput(roleArn, iamPolicy, sessionName) ==
  [DurationSeconds |-> DurationSeconds,
   Policy |-> IF iamPolicy # "" THEN iamPolicy ELSE Nil,
   RoleArn |-> String(roleArn),
   RoleSessionName |-> sessionName]

\* what STS answers to a request it grants: its n-th credential set, issued
\* at time issued for the duration asked for
AssumeRoleOutput(input, n, issued) ==
  [AccessKeyId |-> n,
   SessionToken |-> <<input.RoleArn, input.Policy>>,
   Expiration |-> issued + Minutes(input.DurationSeconds)]

\* the Credentials that AssumeRole returns for the response, at time t
CredentialsOf(resp, t) ==
  [AccessKey |-> resp.AccessKeyId,
   Expiration |-> resp.Expiration,
   GeneratedAt |-> t,
   RoleArn |-> "",
   Token |-> resp.SessionToken]

----------------------------------------------------------------------------
(* State after NewCredentialsProvider *)

InitProvider ==
  /\ now = 0
  /\ platform \in Platforms
  /\ cache = EmptyMap
  /\ lock = NoOne
  /\ pc = [p \in Callers |-> "idle"]
  /\ arg = EmptyMap
  /\ container = EmptyMap
  /\ sts = EmptyMap
  /\ result = [p \in Callers |-> NoResult]
  /\ serial = 0
  /\ kept = EmptyMap
  /\ served = EmptyMap

NotCalled == [called |-> FALSE, panic |-> FALSE, value |-> <<>>]

\* neither ExpiredAt nor ExpiresIn is called on its own
NoExpiryCall ==
  /\ exIn = [Expiration |-> 0, t |-> 0, d |-> 0]
  /\ exOut = [fn |-> "none", value |-> FALSE]

Init ==
  /\ InitProvider
  /\ docker = [a \in Addrs |-> Containers]
  /\ snIn = [platform |-> <<>>, containerId |-> <<>>]
  /\ snOut = NotCalled
  /\ NoExpiryCall

\* the callers inside CredentialsForIP
Pending == {p \in Callers : pc[p] # "idle"}

----------------------------------------------------------------------------
(* CredentialsForIP, one action per blocking step *)

\* a caller (one goroutine of the metadata server per request) invokes CredentialsForIP(ip) and reaches self.lock.Lock()
Call(p, ip) ==
  /\ pc[p] = "idle"
  /\ serial + Cardinality(Pending) < MaxSerial
  /\ pc' = [pc EXCEPT ![p] = "lock"]
  /\ arg' = Put(arg, p, ip)
  /\ result' = [result EXCEPT ![p] = NoResult]
  /\ served' = Remove(served, p)
  /\ UNCHANGED <<now, platform, docker, cache, lock, container, sts, serial,
                 kept, snIn, snOut, exIn, exOut>>

\* a Lock that does not wait
LockMut(p) ==
  /\ pc[p] = "lock"
  /\ lock' = p
  /\ pc' = [pc EXCEPT ![p] = "resolve"]
  /\ UNCHANGED <<now, platform, docker, served, cache, arg, container, sts, result,
                 serial, kept, snIn, snOut, exIn, exOut>>

\* self.lock.Lock() returns; the caller is in self.container.ContainerForIP
Lock(p) ==
  /\ pc[p] = "lock"
  /\ lock = NoOne
  /\ lock' = p
  /\ pc' = [pc EXCEPT ![p] = "resolve"]
  /\ UNCHANGED <<now, platform, docker, served, cache, arg, container, sts, result,
                 serial, kept, snIn, snOut, exIn, exOut>>

\* the return of a call, with the deferred self.lock.Unlock(); the call's
\* parameter and locals are gone
Return(p, r) ==
  /\ result' = [result EXCEPT ![p] = r]
  /\ pc' = [pc EXCEPT ![p] = "idle"]
  /\ lock' = NoOne
  /\ arg' = Remove(arg, p)
  /\ container' = Remove(container, p)

\* an error of ContainerForIP that drops the address's entry
ContainerForIPFailsMut(p, e) ==
  /\ pc[p] = "resolve"
  /\ Return(p, ReturnError(e))
  /\ cache' = Remove(cache, arg[p])
  /\ UNCHANGED <<now, platform, docker, served, sts, serial, kept, snIn, snOut, exIn, exOut>>

\* an error return that leaves without the deferred Unlock
ContainerForIPFailsLockedMut(p, e) ==
  /\ pc[p] = "resolve"
  /\ result' = [result EXCEPT ![p] = ReturnError(e)]
  /\ pc' = [pc EXCEPT ![p] = "idle"]
  /\ arg' = Remove(arg, p)
  /\ container' = Remove(container, p)
  /\ UNCHANGED <<now, platform, docker, served, cache, lock, sts, serial,
                 kept, snIn, snOut, exIn, exOut>>

\* ContainerForIP returns an error: lines 78-82
ContainerForIPFails(p, e) ==
  /\ pc[p] = "resolve"
  /\ Return(p, ReturnError(e))
  /\ UNCHANGED <<now, platform, docker, served, cache, sts, serial, kept, snIn, snOut, exIn, exOut>>

\* ContainerForIP returns container c: lines 78-80
ContainerForIPReturns(p, c) ==
  /\ pc[p] = "resolve"
  /\ c \in docker[arg[p]]
  /\ container' = Put(container, p, c)
  /\ pc' = [pc EXCEPT ![p] = "lookup"]
  /\ UNCHANGED <<now, platform, docker, served, cache, lock, arg, sts, result, serial,
                 kept, snIn, snOut, exIn, exOut>>

\* the frame of self.AssumeRole(roleArn, iamPolicy, sessionName) up to its
\* call of self.awsSts.AssumeRole: lines 111-123
AssumeRoleCall(roleArn, iamPolicy, sessionName) ==
  [roleArn |-> roleArn, iamPolicy |-> iamPolicy, sessionName |-> sessionName,
   input |-> AssumeRoleInput(roleArn, iamPolicy, sessionName)]

\* lines 84-98: the lookup, the validity test and, for an entry that is
\* missing or not valid, the call of AssumeRole; line 108 for a valid entry
Lookup(p) ==
  /\ pc[p] = "lookup"
  /\ LET found == arg[p] \in DOMAIN cache
         sessionName == generateSessionName(platform, container[p].Id)
     IN IF found /\ IsValid(cache[arg[p]], container[p], now)
        THEN /\ Return(p, ReturnCreds(cache[arg[p]].Credentials))
             /\ served' = Put(served, p, container[p])
             /\ UNCHANGED sts
        ELSE IF sessionName.panic
        THEN /\ Return(p, ReturnPanic)
             /\ UNCHANGED <<sts, served>>
        ELSE /\ sts' = Put(sts, p,
                          AssumeRoleCall(EffectiveRole(container[p]),
                                         EffectivePolicy(container[p]),
                                         sessionName.value))
             /\ pc' = [pc EXCEPT ![p] = "sts"]
             /\ UNCHANGED <<lock, arg, container, result, served>>
  /\ UNCHANGED <<now, platform, docker, cache, serial, kept, snIn, snOut, exIn, exOut>>

\* a failure of AssumeRole that drops the address's entry
AssumeRoleFailsMut(p, e) ==
  /\ pc[p] = "sts"
  /\ sts' = Remove(sts, p)
  /\ Return(p, ReturnError(e))
  /\ cache' = Remove(cache, arg[p])
  /\ kept' = IF arg[p] \in DOMAIN cache
             THEN Put(kept, arg[p], cache[arg[p]]) ELSE kept
  /\ UNCHANGED <<now, platform, docker, served, serial, snIn, snOut, exIn, exOut>>

\* self.awsSts.AssumeRole fails: lines 125-127 and 100-102
AssumeRoleFails(p, e) ==
  /\ pc[p] = "sts"
  /\ sts' = Remove(sts, p)
  /\ Return(p, ReturnError(e))
  /\ kept' = IF arg[p] \in DOMAIN cache
             THEN Put(kept, arg[p], cache[arg[p]]) ELSE kept
  /\ UNCHANGED <<now, platform, docker, served, cache, serial, snIn, snOut, exIn, exOut>>

\* a refresh that stores the effective role in the entry's snapshot
AssumeRoleReturnsEffectiveMut(p) ==
  /\ pc[p] = "sts"
  /\ LET resp == AssumeRoleOutput(sts[p].input, serial + 1, now)
         role == CredentialsOf(resp, now)
         snapshot == [container[p] EXCEPT !.IamRole = sts[p].roleArn]
         oldCredentials == ContainerCredentials(snapshot, role)
     IN /\ cache' = Put(cache, arg[p], oldCredentials)
        /\ Return(p, ReturnCreds(oldCredentials.Credentials))
  /\ serial' = serial + 1
  /\ sts' = Remove(sts, p)
  /\ kept' = Remove(kept, arg[p])
  /\ UNCHANGED <<now, platform, docker, served, snIn, snOut, exIn, exOut>>

\* a refresh that starts the map afresh
AssumeRoleReturnsNewMapMut(p) ==
  /\ pc[p] = "sts"
  /\ LET resp == AssumeRoleOutput(sts[p].input, serial + 1, now)
         role == CredentialsOf(resp, now)
         oldCredentials == ContainerCredentials(container[p], role)
     IN /\ cache' = Put(EmptyMap, arg[p], oldCredentials)
        /\ Return(p, ReturnCreds(oldCredentials.Credentials))
  /\ serial' = serial + 1
  /\ sts' = Remove(sts, p)
  /\ kept' = Remove(kept, arg[p])
  /\ UNCHANGED <<now, platform, docker, served, snIn, snOut, exIn, exOut>>

\* self.awsSts.AssumeRole succeeds: lines 129-135 and 104-108
AssumeRoleReturns(p) ==
  /\ pc[p] = "sts"
  /\ LET resp == AssumeRoleOutput(sts[p].input, serial + 1, now)
         role == CredentialsOf(resp, now)
         oldCredentials == ContainerCredentials(container[p], role)
     IN /\ cache' = Put(cache, arg[p], oldCredentials)
        /\ Return(p, ReturnCreds(oldCredentials.Credentials))
  /\ serial' = serial + 1
  /\ sts' = Remove(sts, p)
  /\ kept' = Remove(kept, arg[p])
  /\ UNCHANGED <<now, platform, docker, served, snIn, snOut, exIn, exOut>>

\* time passes
Tick(d) ==
  /\ now + d <= MaxTime
  /\ now' = now + d
  /\ UNCHANGED <<platform, docker, served, cache, lock, pc, arg, container, sts, result,
                 serial, kept, snIn, snOut, exIn, exOut>>

Next ==
  \/ \E p \in Callers, ip \in Addrs : Call(p, ip)
  \/ \E p \in Callers : Lock(p)
  \/ \E p \in Callers, e \in ResolveErrors : ContainerForIPFails(p, e)
  \/ \E p \in Callers, c \in Containers : ContainerForIPReturns(p, c)
  \/ \E p \in Callers : Lookup(p)
  \/ \E p \in Callers, e \in StsErrors : AssumeRoleFails(p, e)
  \/ \E p \in Callers : AssumeRoleReturns(p)
  \/ \E d \in TickSteps : Tick(d)

Spec == Init /\ [][Next]_vars

\* the steps of a call that follow the lock: the collaborators' returns and
\* the caller's own code
Proceed(p) ==
  \/ \E e \in ResolveErrors : ContainerForIPFails(p, e)
  \/ \E c \in Containers : ContainerForIPReturns(p, c)
  \/ Lookup(p)
  \/ \E e \in StsErrors : AssumeRoleFails(p, e)
  \/ AssumeRoleReturns(p)

\* every call is a direct, blocking call that runs on: ContainerForIP and
\* STS return, and self.lock.Lock() hands the lock to every waiter in turn
Fairness ==
  \A p \in Callers : WF_vars(Proceed(p)) /\ SF_vars(Lock(p))

\* the containers stay as they are: ContainerForIP has one answer
InitLive ==
  /\ InitProvider
  /\ docker \in {[a \in Addrs |-> {c}] : c \in Containers}
  /\ snIn = [platform |-> <<>>, containerId |-> <<>>]
  /\ snOut = NotCalled
  /\ NoExpiryCall

SpecLive == InitLive /\ [][Next]_vars /\ Fairness

----------------------------------------------------------------------------
(* A burst: every caller calls once, for the one address that has a         *)
(* container; ContainerForIP answers all of them with that container, STS   *)
(* grants what it is asked, and the burst is over before a credential set   *)
(* issued in it comes within the margin of its expiration.                  *)

InitBurst ==
  /\ InitProvider
  /\ docker \in {[a \in Addrs |-> IF a = ip THEN {c} ELSE {}] :
                   ip \in Addrs, c \in Containers}
  /\ snIn = [platform |-> <<>>, containerId |-> <<>>]
  /\ snOut = NotCalled
  /\ NoExpiryCall

NextBurst ==
  \/ \E p \in Callers, ip \in Addrs :
       docker[ip] # {} /\ result[p].kind = "none" /\ Call(p, ip)
  \/ \E p \in Callers : Lock(p)
  \/ \E p \in Callers, c \in Containers : ContainerForIPReturns(p, c)
  \/ \E p \in Callers : Lookup(p)
  \/ \E p \in Callers : AssumeRoleReturns(p)
  \/ \E d \in TickSteps :
       /\ now + d + SafetyMarginMinutes <= Minutes(DurationSeconds)
       /\ Tick(d)

SpecBurst == InitBurst /\ [][NextBurst]_vars

----------------------------------------------------------------------------
(* generateSessionName on its own *)

InitSessionName ==
  /\ InitProvider
  /\ docker = [a \in Addrs |-> Containers]
  /\ snIn \in {[platform |-> pl, containerId |-> Repeat(seed, n)] :
                 pl \in SnPlatforms, seed \in SnSeeds, n \in 0..MaxIdLen}
  /\ snOut = NotCalled
  /\ NoExpiryCall

CallGenerateSessionName ==
  /\ ~snOut.called
  /\ LET r == generateSessionName(snIn.platform, snIn.containerId)
     IN snOut' = [called |-> TRUE, panic |-> r.panic, value |-> r.value]
  /\ UNCHANGED <<now, platform, docker, served, cache, lock, pc, arg, container, sts,
                 result, serial, kept, snIn, exIn, exOut>>

NextSessionName == CallGenerateSessionName

SpecSessionName == InitSessionName /\ [][NextSessionName]_vars

----------------------------------------------------------------------------
(* ExpiredAt and ExpiresIn on their own *)

InitExpiry ==
  /\ InitProvider
  /\ docker = [a \in Addrs |-> Containers]
  /\ snIn = [platform |-> <<>>, containerId |-> <<>>]
  /\ snOut = NotCalled
  /\ exIn \in [Expiration : 0..MaxInstant, t : 0..MaxInstant, d : 0..MaxDuration]
  /\ exOut = [fn |-> "none", value |-> FALSE]

\* a credential set with the expiration given
ExpiringAt(e) == [ZeroCredentials EXCEPT !.Expiration = e]

\* ExpiredAt(at) with at = exIn.t
CallExpiredAt ==
  /\ exOut.fn = "none"
  /\ exOut' = [fn |-> "ExpiredAt",
               value |-> ExpiredAt(ExpiringAt(exIn.Expiration), exIn.t)]
  /\ UNCHANGED <<now, platform, docker, served, cache, lock, pc, arg, container, sts,
                 result, serial, kept, snIn, snOut, exIn>>

\* ExpiresIn(d) with d = exIn.d, when time.Now() is exIn.t
CallExpiresIn ==
  /\ exOut.fn = "none"
  /\ exOut' = [fn |-> "ExpiresIn",
               value |-> ExpiresIn(ExpiringAt(exIn.Expiration), exIn.d, exIn.t)]
  /\ UNCHANGED <<now, platform, docker, served, cache, lock, pc, arg, container, sts,
                 result, serial, kept, snIn, snOut, exIn>>

NextExpiry == CallExpiredAt \/ CallExpiresIn

SpecExpiry == InitExpiry /\ [][NextExpiry]_vars

----------------------------------------------------------------------------
(* What the callers of CredentialsForIP may rely on *)

\* the steps of caller p
Leaves(p, at) == pc[p] = at /\ pc'[p] # at
Returns(p) == pc[p] # "idle" /\ pc'[p] = "idle"

\* C1: in a burst at most one AssumeRole call is made in total (every call
\* made is in flight or has made STS issue a credential set), and every caller
\* that has its credential set has the one set STS issued, which is the set
\* the cache holds.
C1_OneAssumeRolePerBurst ==
  /\ serial + Cardinality(DOMAIN sts) <= 1
  /\ \A p \in Callers :
       result[p].kind = "creds" =>
         /\ serial = 1
         /\ \E ip \in DOMAIN cache : result[p].creds = cache[ip].Credentials

\* the burst is over: every caller has a credential set and STS issued one
C1_Witness ==
  /\ \A p \in Callers : result[p].kind = "creds"
  /\ serial = 1
  /\ DOMAIN sts = {}

\* C2: in every reachable state at most one AssumeRole request is in flight,
\* whatever the addresses of the callers.
C2_OneAssumeRoleInFlight == Cardinality(DOMAIN sts) <= 1

\* a request is in flight for one address while a caller for another address
\* waits for the lock
C2_Witness ==
  \E p \in DOMAIN sts, q \in Callers :
    pc[q] = "lock" /\ arg[q] # arg[p]

\* the validity test as section 4.4 states it: the entry exists, its role
\* and id are those of the container, and now + 5 minutes is not after its
\* expiration
StatedValid(m, ip, c, t) ==
  /\ ip \in DOMAIN m
  /\ m[ip].ContainerInfo.IamRole = c.IamRole
  /\ m[ip].ContainerInfo.Id = c.Id
  /\ ~(t + SafetyMarginMinutes > m[ip].Credentials.Expiration)

\* C3 (as claimed): the lookup returns the cached credential set, with no
\* AssumeRole call, exactly when the entry passes the stated validity test.
C3_ReuseIffStatedValid ==
  [][\A p \in Callers :
       Leaves(p, "lookup") =>
         ( (Returns(p) /\ result'[p].kind = "creds" /\ sts' = sts)
           <=> StatedValid(cache, arg[p], container[p], now) )]_vars

\* C4 (as claimed): a credential set that CredentialsForIP returns is not
\* expired at the moment it is returned.
C4_ReturnedNotExpired ==
  [][\A p \in Callers :
       Returns(p) /\ result'[p].kind = "creds" =>
         ~(now > result'[p].creds.Expiration)]_vars

\* C5: when AssumeRole fails (the call leaves STS and STS has issued nothing)
\* the call returns the error of STS with an empty credential set, and the
\* cache is what it was.
C5_FailedAssumeRoleKeepsCache ==
  [][\A p \in Callers :
       Leaves(p, "sts") /\ serial' = serial =>
         /\ Returns(p)
         /\ result'[p].kind = "error"
         /\ result'[p].err \in StsErrors
         /\ result'[p].creds = ZeroCredentials
         /\ cache' = cache]_vars

\* a call has returned the error of STS and the entry the cache held then is
\* still there
C5_Witness ==
  \E p \in Callers, ip \in DOMAIN kept :
    /\ result[p].err \in StsErrors
    /\ ip \in DOMAIN cache
    /\ cache[ip] = kept[ip]

\* C6: when ContainerForIP fails the call returns its error with an empty
\* credential set, sends nothing to STS and leaves the cache as it was.
C6_FailedResolutionKeepsCache ==
  [][\A p \in Callers :
       Leaves(p, "resolve") /\ pc'[p] # "lookup" =>
         /\ Returns(p)
         /\ result'[p].kind = "error"
         /\ result'[p].err \in ResolveErrors
         /\ result'[p].creds = ZeroCredentials
         /\ sts' = sts
         /\ serial' = serial
         /\ cache' = cache]_vars

\* a call has returned the error of ContainerForIP while the cache holds an
\* entry
C6_Witness ==
  \E p \in Callers :
    /\ result[p].err \in ResolveErrors
    /\ DOMAIN cache # {}
    /\ DOMAIN sts = {}

\* C7 (as claimed): no call of CredentialsForIP ends in a panic.
C7_NoFatalOutcome == \A p \in Callers : result[p].kind # "panic"

\* C8: the role and the policy handed to AssumeRole: the declared role, or
\* the default role when none is declared; the default policy only when
\* neither a role nor a policy is declared, the declared policy otherwise.
C8_EffectiveRoleAndPolicy ==
  \A p \in DOMAIN sts :
    LET c == container[p]
        r == sts[p]
    IN /\ r.roleArn = IF c.IamRole # "" THEN c.IamRole ELSE defaultIamRoleArn
       /\ r.iamPolicy = IF c.IamRole = "" /\ c.IamPolicy = ""
                         THEN defaultIamPolicy ELSE c.IamPolicy
       /\ (c.IamRole = "" /\ c.IamPolicy = "" =>
             r.roleArn = defaultIamRoleArn /\ r.iamPolicy = defaultIamPolicy)
       /\ (c.IamRole = "" /\ c.IamPolicy # "" =>
             r.roleArn = defaultIamRoleArn /\ r.iamPolicy = c.IamPolicy)
       /\ (c.IamRole # "" /\ c.IamPolicy = "" =>
             r.roleArn = c.IamRole /\ r.iamPolicy = "")

\* a request is in flight for a container with a role and no policy
C8_Witness ==
  \E p \in DOMAIN sts :
    /\ container[p].IamRole = "arn:roleA"
    /\ container[p].IamPolicy = ""
    /\ sts[p].iamPolicy = ""

\* C9: after AssumeRole has failed for an address, a call for that address
\* which resolves the container of the entry the cache held at the failure,
\* while now + 5 minutes is not after the expiration of its credential set,
\* returns that credential set, sends nothing to STS and leaves the cache as
\* it was.
C9_EntryServedAfterFailure ==
  [][\A p \in Callers :
       /\ Leaves(p, "lookup")
       /\ arg[p] \in DOMAIN kept
       /\ StatedValid(kept, arg[p], container[p], now)
       => /\ Returns(p)
          /\ result'[p] = ReturnCreds(kept[arg[p]].Credentials)
          /\ sts' = sts
          /\ serial' = serial
          /\ cache' = cache]_vars

\* every caller holds the credential set of an entry that has outlived a
\* failure of AssumeRole: one of them got it from the cache after the failure
C9_Witness ==
  \E ip \in DOMAIN kept :
    \A p \in Callers : result[p] = ReturnCreds(kept[ip].Credentials)

\* the class of section 4.3: [A-Za-z0-9_+=,.@-]
StatedChars == Lower \cup Upper \cup Digit \cup {"_", "+", "=", ",", ".", "@", "-"}

\* C10: a session name that generateSessionName returns has at most 32
\* characters, all of [A-Za-z0-9_+=,.@-]: each is the character of
\* platform + "-" + containerId at its place, or "_" where that one is not
\* of the class.
C10_SessionNameBoundedAndClean ==
  snOut.called /\ ~snOut.panic =>
    LET s == snIn.platform \o <<"-">> \o snIn.containerId
    IN /\ Len(snOut.value) <= 32
       /\ \A i \in 1..Len(snOut.value) :
            /\ snOut.value[i] \in StatedChars
            /\ snOut.value[i] = IF s[i] \in StatedChars THEN s[i] ELSE "_"

\* a name was returned for more than 32 characters, one of the first 32
\* outside the class
C10_Witness ==
  /\ snOut.called
  /\ ~snOut.panic
  /\ Len(snIn.platform) + 1 + Len(snIn.containerId) > 32
  /\ \E i \in 1..Len(snIn.containerId) :
       /\ Len(snIn.platform) + 1 + i <= 32
       /\ snIn.containerId[i] \notin StatedChars

\* C11 (as claimed): when platform + "-" + containerId has fewer than 32
\* characters, generateSessionName returns the sanitized string as it is,
\* without failing and without padding.
C11_ShortNameReturnedAsIs ==
  LET s == snIn.platform \o <<"-">> \o snIn.containerId
  IN snOut.called /\ Len(s) < 32 =>
       /\ ~snOut.panic
       /\ snOut.value = [i \in 1..Len(s) |->
                           IF s[i] \in StatedChars THEN s[i] ELSE "_"]

\* C12 (as claimed): ExpiresIn(d) is true exactly when now + d is after the
\* expiration: false for d = expiration - now, true for any larger d.
C12_ExpiresInIffNowPlusDAfter ==
  exOut.fn = "ExpiresIn" =>
    /\ exOut.value <=> (exIn.t + exIn.d > exIn.Expiration)
    /\ (exIn.d = exIn.Expiration - exIn.t => ~exOut.value)
    /\ (exIn.d > exIn.Expiration - exIn.t => exOut.value)

\* C13: ExpiredAt(t) is true exactly when t is after the expiration: false
\* at the expiration and before it, true at any later instant.
C13_ExpiredAtIffStrictlyAfter ==
  exOut.fn = "ExpiredAt" =>
    /\ exOut.value <=> (exIn.t > exIn.Expiration)
    /\ (exIn.t <= exIn.Expiration => ~exOut.value)
    /\ (exIn.t >= exIn.Expiration + 1 => exOut.value)

\* ExpiredAt was called at the expiration itself and answered false
C13_Witness ==
  /\ exOut.fn = "ExpiredAt"
  /\ exIn.t = exIn.Expiration
  /\ ~exOut.value

\* the callers between the start of identity resolution and the return
InCall == {p \in Callers : pc[p] \in {"resolve", "lookup", "sts"}}

\* C14: at most one caller is between the start of identity resolution and
\* the return of its call, and it holds the lock; every step that changes
\* the cache or the requests in flight, and every step of a call past the
\* lock, is a step of the caller that holds the lock.
C14_OneCriticalSection ==
  /\ [](Cardinality(InCall) <= 1 /\ \A p \in InCall : lock = p)
  /\ [][(cache' # cache \/ sts' # sts \/ \E q \in InCall : pc'[q] # pc[q]) =>
          \E p \in Callers :
            /\ lock = p
            /\ p \in InCall
            /\ pc'[p] # pc[p]
            /\ \A q \in Callers \ {p} : pc'[q] = pc[q]]_vars

\* a caller has its request at STS while another waits for the lock with
\* the same address
C14_Witness ==
  \E p \in DOMAIN sts, q \in Callers :
    pc[q] = "lock" /\ arg[q] = arg[p] /\ lock = p

\* C15: a refresh that succeeds stores, for the call's address, the container
\* as it was resolved (declared role and policy) with the credential set STS
\* has just issued for the request, and returns that set; every call that
\* returns a credential set returns the one the cache then holds for its
\* address.
C15_RefreshStoresAndReturns ==
  [][\A p \in Callers :
       /\ (Leaves(p, "sts") /\ serial' # serial =>
             /\ Returns(p)
             /\ result'[p].kind = "creds"
             /\ result'[p].creds.AccessKey = serial'
             /\ result'[p].creds.Token = <<sts[p].input.RoleArn, sts[p].input.Policy>>
             /\ arg[p] \in DOMAIN cache'
             /\ cache'[arg[p]].ContainerInfo = container[p]
             /\ cache'[arg[p]].Credentials = result'[p].creds)
       /\ (Returns(p) /\ result'[p].kind = "creds" =>
             /\ arg[p] \in DOMAIN cache'
             /\ result'[p].creds = cache'[arg[p]].Credentials)]_vars

\* a caller's refresh for a container that declares no role has stored the
\* container with its empty role, and credentials of the default role
C15_Witness ==
  \E p \in Callers \ DOMAIN served, ip \in DOMAIN cache :
    /\ result[p] = ReturnCreds(cache[ip].Credentials)
    /\ cache[ip].ContainerInfo.IamRole = ""
    /\ cache[ip].Credentials.Token[1] = defaultIamRoleArn

\* C16: no step removes an entry of the cache, and an entry appears or
\* changes only in the step in which a call for its address returns from STS
\* with the credential set STS has just issued.
C16_EntriesOnlyOverwritten ==
  [][/\ DOMAIN cache \subseteq DOMAIN cache'
     /\ \A ip \in DOMAIN cache' :
          (ip \notin DOMAIN cache \/ cache'[ip] # cache[ip]) =>
            \E p \in Callers :
              /\ Leaves(p, "sts")
              /\ arg[p] = ip
              /\ serial' = serial + 1
              /\ cache'[ip].Credentials.AccessKey = serial']_vars

\* the one entry of the cache holds the second credential set: it was
\* overwritten in place
C16_Witness ==
  \E ip \in Addrs :
    DOMAIN cache = {ip} /\ cache[ip].Credentials.AccessKey = 2

\* C17: every request to STS has a duration of 3600 seconds, the string of
\* the role and the session name AssumeRole was given, and no policy exactly
\* when the policy given is empty, the policy given otherwise; when STS fails
\* the call returns the error of STS with an empty credential set.
C17_AssumeRoleRequest ==
  /\ [](\A p \in DOMAIN sts :
          LET r == sts[p]
          IN /\ r.input.DurationSeconds = 3600
             /\ r.input.RoleArn = r.roleArn
             /\ r.input.RoleSessionName = r.sessionName
             /\ (r.input.Policy = Nil <=> r.iamPolicy = "")
             /\ (r.iamPolicy # "" => r.input.Policy = r.iamPolicy))
  /\ [][\A p \in Callers :
          Leaves(p, "sts") /\ serial' = serial =>
            \E e \in StsErrors : result'[p] = ReturnError(e)]_vars

\* a request without a policy is in flight, for a call with an empty policy
C17_Witness ==
  \E p \in DOMAIN sts :
    /\ sts[p].iamPolicy = ""
    /\ sts[p].input.Policy = Nil
    /\ sts[p].input.DurationSeconds = 3600

\* C18: a step of a call for one address leaves the entry of every other
\* address as it was: there before and after and the same, or absent before
\* and after.
C18_OtherEntriesUntouched ==
  [][\A p \in DOMAIN arg :
       pc'[p] # pc[p] =>
         \A ip \in Addrs \ {arg[p]} :
           /\ ip \in DOMAIN cache <=> ip \in DOMAIN cache'
           /\ ip \in DOMAIN cache => cache'[ip] = cache[ip]]_vars

\* every address has its entry: the second refresh left the first entry
C18_Witness ==
  /\ DOMAIN cache = Addrs
  /\ \E ip \in Addrs : cache[ip].Credentials.AccessKey = 1
  /\ \E ip \in Addrs : cache[ip].Credentials.AccessKey = 2

\* C19: every return of a call releases the lock, the lock is free whenever
\* no caller is past it, and under fair lock acquisition and collaborators
\* that return every call that has started returns in the end.
C19_LockReleasedCallsComplete ==
  /\ [][\A p \in Callers : Returns(p) => lock = p /\ lock' = NoOne]_vars
  /\ [](InCall = {} => lock = NoOne)
  /\ \A p \in Callers : (pc[p] # "idle") ~> (pc[p] = "idle")

\* a call has failed, the lock is free and another call waits for it
C19_Witness ==
  \E p \in Callers, q \in Callers :
    /\ pc[p] = "idle"
    /\ result[p].kind = "error"
    /\ pc[q] = "lock"
    /\ lock = NoOne

\* C20: a lookup that resolves a container with the id and the role of the
\* entry but another declared policy, while now + 5 minutes is not after the
\* expiration of the entry's credential set, returns that credential set,
\* sends nothing to STS and leaves the cache as it was.
C20_PolicyChangeNotNoticed ==
  [][\A p \in Callers :
       /\ Leaves(p, "lookup")
       /\ StatedValid(cache, arg[p], container[p], now)
       /\ cache[arg[p]].ContainerInfo.IamPolicy # container[p].IamPolicy
       => /\ Returns(p)
          /\ result'[p] = ReturnCreds(cache[arg[p]].Credentials)
          /\ sts' = sts
          /\ serial' = serial
          /\ cache' = cache]_vars

\* a caller was served the cached credential set for a container that
\* declares another policy than the one the set was issued under
C20_Witness ==
  \E p \in DOMAIN served, ip \in DOMAIN cache :
    /\ result[p] = ReturnCreds(cache[ip].Credentials)
    /\ served[p].Id = cache[ip].ContainerInfo.Id
    /\ served[p].IamRole = cache[ip].ContainerInfo.IamRole
    /\ served[p].IamPolicy # cache[ip].ContainerInfo.IamPolicy
    /\ served[p].IamPolicy # ""
    /\ cache[ip].Credentials.Token[2] # served[p].IamPolicy

====
